---- MODULE Spec2Model ----
(***************************************************************************)
(* The ds9samp command-line drivers (ds9samp_get, ds9samp_set and          *)
(* ds9samp_list) of src/ds9samp/scripts.py as a state machine.             *)
(*                                                                         *)
(* A text is a sequence of pieces.  Command texts, file contents and       *)
(* standard input are sequences of one-character pieces, so that split     *)
(* and strip work on characters as str.split and str.strip do.  Fixed      *)
(* texts of the program (message prefixes, debug labels) are pieces of     *)
(* several characters.  An optional value (None or a value) is a sequence  *)
(* of length 0 or 1.                                                       *)
(***************************************************************************)
EXTENDS Integers, Sequences, FiniteSets, TLC

VARIABLES
    entry,      \* the console script that runs: "get", "set" or "list"
    pc,         \* position of the control flow
    args,       \* optional: the namespace parse() returned
    commands,   \* main_set: the list of commands
    i,          \* main_set: position of the for loop in commands
    session,    \* the connection made by ds9samp(): "none", "open", "closed"
    timeout,    \* optional: the timeout attribute set on the connection
    calls,      \* the calls made on the collaborator (ds9samp, get, set, list_ds9)
    reads,      \* the inputs opened: standard input or a file, with the text read
    out,        \* main_get: optional reply of ds9.get
    clients,    \* main_list: optional, the client names list_ds9 returned
    stdout,     \* lines written to sys.stdout
    stderr,     \* messages written to sys.stderr
    exc,        \* optional: the exception that left the entry point
    exitcode,   \* optional: the exit code of the process
    env         \* optional: what add_color read of the environment

vars == <<entry, pc, args, commands, i, session, timeout, calls, reads, out,
          clients, stdout, stderr, exc, exitcode, env>>

----------------------------------------------------------------------------
(* Bounds of the model *)

\* longest literal command argument
MaxLen == 4
\* longest text of a file or of standard input
MaxText == 3
\* longest file name after the @
MaxPath == 1
\* most DS9 clients the hub reports
MaxClients == 3

(* Program constants *)

\* default of --timeout
DefaultTimeout == 10

----------------------------------------------------------------------------
(* Characters and texts *)

NL == "\n"
BSLASH == "\\"
None == <<>>
Some(v) == <<v>>

Whitespace == {" ", NL}
LiteralChars == {"n", " ", BSLASH, NL, "@"}
TextChars == {"n", " ", BSLASH, NL}
PathChars == {"n", "-"}

Strings(S, n) == UNION {[1..k -> S] : k \in 0..n}

startswith(s, p) == Len(s) >= Len(p) /\ SubSeq(s, 1, Len(p)) = p

\* str.strip(): drop leading and trailing whitespace
RECURSIVE lstrip(_)
lstrip(s) == IF s # <<>> /\ Head(s) \in Whitespace THEN lstrip(Tail(s)) ELSE s

RECURSIVE rstrip(_)
rstrip(s) ==
    IF s # <<>> /\ s[Len(s)] \in Whitespace THEN rstrip(SubSeq(s, 1, Len(s) - 1)) ELSE s

strip(s) == rstrip(lstrip(s))

\* str.split(sep): the pieces between the non-overlapping occurrences of sep,
\* found left to right; empty pieces are kept
RECURSIVE split(_, _)
split(s, sep) ==
    LET hits == {k \in 1..(Len(s) - Len(sep) + 1) : SubSeq(s, k, k + Len(sep) - 1) = sep}
    IN  IF hits = {} THEN <<s>>
        ELSE LET k == CHOOSE h \in hits : \A g \in hits : h <= g
             IN  <<SubSeq(s, 1, k - 1)>> \o split(SubSeq(s, k + Len(sep), Len(s)), sep)

\* str.join(items)
RECURSIVE join(_, _)
join(sep, items) ==
    IF items = <<>> THEN <<>>
    ELSE IF Len(items) = 1 THEN items[1]
    ELSE items[1] \o sep \o join(sep, Tail(items))

----------------------------------------------------------------------------
(* Inputs *)

\* command arguments: literals, and @ followed by a file name (@- is stdin)
Literals == {s \in Strings(LiteralChars, MaxLen) : ~startswith(s, <<"@">>)}
AtArgs == {<<"@">> \o p : p \in Strings(PathChars, MaxPath)}
Commands == Literals \cup AtArgs

Timeouts == {0, DefaultTimeout}
Clients == {None, Some("c1")}
Namespaces ==
    [command : Commands, client : Clients, timeout : Timeouts, debug : BOOLEAN]

\* what a file or standard input holds
Texts == Strings(TextChars, MaxText)

\* what ds9.get returns: None, or a text
Replies == {None, Some(<<>>), Some(<<"linear">>)}

\* what list_ds9 returns
ClientNames == {"c1", "c56"}
ClientLists == Strings(ClientNames, MaxClients)

\* the environment add_color reads: sys.stderr.isatty() and NO_COLOR
Environments == [isatty : BOOLEAN, NO_COLOR : {None, Some(""), Some("1")}]

----------------------------------------------------------------------------
(* Output *)

\* the ANSI escape sequences ESC[1;31m and ESC[0;0m
BOLD_RED == "<ESC>[1;31m"
RESET == "<ESC>[0;0m"

\* debug(msg): print(f"# {msg}")
debug(msg) == [by |-> "debug", text |-> <<"# ">> \o msg]

print(txt) == [by |-> "print", text |-> txt]

\* variant of add_color: an empty NO_COLOR counts as unset
add_color_noempty(txt, e) ==
    IF ~e.isatty THEN txt
    ELSE IF e.NO_COLOR # None /\ e.NO_COLOR # Some("") THEN txt
    ELSE <<BOLD_RED>> \o txt \o <<RESET>>

add_color(txt, e) ==
    IF ~e.isatty THEN txt
    ELSE IF e.NO_COLOR # None THEN txt
    ELSE <<BOLD_RED>> \o txt \o <<RESET>>

Exception(m) == [kind |-> "Exception", msg |-> m]
KeyboardInterrupt == [kind |-> "KeyboardInterrupt", msg |-> <<>>]
SystemExit(code) == [kind |-> "SystemExit", msg |-> <<ToString(code)>>]

\* the connection is released when the with block is left
release(s) == IF s = "open" THEN "closed" ELSE s

----------------------------------------------------------------------------
Init ==
    /\ entry \in {"get", "set", "list"}
    /\ pc = "parse"
    /\ args = None
    /\ commands = <<>>
    /\ i = 0
    /\ session = "none"
    /\ timeout = None
    /\ calls = <<>>
    /\ reads = <<>>
    /\ out = None
    /\ clients = None
    /\ stdout = <<>>
    /\ stderr = <<>>
    /\ exc = None
    /\ exitcode = None
    /\ env = None

----------------------------------------------------------------------------
(* The collaborator's calls, as the program makes them *)

Call(op, arg, t) == [op |-> op, arg |-> arg, timeout |-> t, open |-> session = "open"]

\* variant of Raise: the call is not inside a with block
Raise_leak(e) ==
    /\ exc' = Some(e)
    /\ session' = session
    /\ pc' = "raised"

\* the exception propagates out of the entry point; a with block that is
\* open is left on the way
Raise(e) ==
    /\ exc' = Some(e)
    /\ session' = release(session)
    /\ pc' = "raised"

----------------------------------------------------------------------------
(* parse(), and the parser of main_list *)

ParseArgs ==
    /\ pc = "parse"
    /\ entry \in {"get", "set"}
    /\ \E ns \in Namespaces : args' = Some(ns)
    /\ pc' = IF entry = "get" THEN "connect" ELSE "resolve"
    /\ UNCHANGED <<entry, commands, i, session, timeout, calls, reads, out, clients, stdout,
                   stderr, exc, exitcode, env>>

ParseList ==
    /\ pc = "parse"
    /\ entry = "list"
    /\ pc' = "list"
    /\ UNCHANGED <<entry, args, commands, i, session, timeout, calls, reads, out, clients,
                   stdout, stderr, exc, exitcode, env>>

\* --version prints the version and exits with 0
ParseVersion ==
    /\ pc = "parse"
    /\ stdout' = Append(stdout, print(<<"VERSION">>))
    /\ exc' = Some(SystemExit(0))
    /\ exitcode' = Some(0)
    /\ pc' = "done"
    /\ UNCHANGED <<entry, args, commands, i, session, timeout, calls, reads, out, clients,
                   stderr, env>>

\* a usage error: argparse writes the usage and exits with 2
ParseUsageError ==
    /\ pc = "parse"
    /\ stderr' = Append(stderr, <<"usage: ">>)
    /\ exc' = Some(SystemExit(2))
    /\ exitcode' = Some(2)
    /\ pc' = "done"
    /\ UNCHANGED <<entry, args, commands, i, session, timeout, calls, reads, out, clients,
                   stdout, env>>

----------------------------------------------------------------------------
(* main_get *)

GetConnect ==
    /\ pc = "connect"
    /\ entry = "get"
    /\ calls' = Append(calls, Call("ds9samp", args[1].client, None))
    /\ session' = "open"
    /\ stdout' = IF args[1].debug
                 THEN stdout \o <<debug(<<"Connected: ", "ds9">>),
                                  debug(<<"Command: ">> \o args[1].command)>>
                 ELSE stdout
    /\ pc' = "get"
    /\ UNCHANGED <<entry, args, commands, i, timeout, reads, out, clients, stderr, exc,
                   exitcode, env>>

GetConnectFail ==
    /\ pc = "connect"
    /\ entry = "get"
    /\ calls' = Append(calls, Call("ds9samp", args[1].client, None))
    /\ Raise(Exception(<<"Unable to find a running SAMP Hub.">>))
    /\ UNCHANGED <<entry, args, commands, i, timeout, reads, out, clients, stdout, stderr,
                   exitcode, env>>

\* ds9.get returns; the with block ends
GetReply ==
    /\ pc = "get"
    /\ calls' = Append(calls, Call("get", args[1].command, Some(args[1].timeout)))
    /\ \E r \in Replies : out' = r
    /\ session' = release(session)
    /\ pc' = "print"
    /\ UNCHANGED <<entry, args, commands, i, timeout, reads, clients, stdout, stderr, exc,
                   exitcode, env>>

GetFail ==
    /\ pc = "get"
    /\ calls' = Append(calls, Call("get", args[1].command, Some(args[1].timeout)))
    /\ Raise(Exception(<<"DS9 reported an error">>))
    /\ UNCHANGED <<entry, args, commands, i, timeout, reads, out, clients, stdout, stderr,
                   exitcode, env>>

\* variant of GetPrint: tests "not out" instead of "out is None"
GetPrint_skipempty ==
    /\ pc = "print"
    /\ stdout' = IF out = None \/ out = Some(<<>>)
                 THEN IF args[1].debug
                      THEN Append(stdout, debug(<<"Command returned nothing.">>))
                      ELSE stdout
                 ELSE Append(stdout, print(out[1]))
    /\ pc' = "return"
    /\ UNCHANGED <<entry, args, commands, i, session, timeout, calls, reads, out, clients,
                   stderr, exc, exitcode, env>>

GetPrint ==
    /\ pc = "print"
    /\ stdout' = IF out = None
                 THEN IF args[1].debug
                      THEN Append(stdout, debug(<<"Command returned nothing.">>))
                      ELSE stdout
                 ELSE Append(stdout, print(out[1]))
    /\ pc' = "return"
    /\ UNCHANGED <<entry, args, commands, i, session, timeout, calls, reads, out, clients,
                   stderr, exc, exitcode, env>>

----------------------------------------------------------------------------
(* main_set: where the commands come from *)

Escape == <<BSLASH, "n">>

\* "@-": the commands are the lines of standard input
SetReadStdin ==
    /\ pc = "resolve"
    /\ startswith(args[1].command, <<"@">>)
    /\ args[1].command = <<"@", "-">>
    /\ stdout' = IF args[1].debug
                 THEN Append(stdout, debug(<<"Reading commands from stdin">>))
                 ELSE stdout
    /\ \E txt \in Texts :
          /\ reads' = Append(reads, [src |-> "stdin", path |-> <<>>, text |-> Some(txt)])
          /\ commands' = split(txt, <<NL>>)
    /\ pc' = "connect"
    /\ UNCHANGED <<entry, args, i, session, timeout, calls, out, clients, stderr, exc,
                   exitcode, env>>

\* "@path": the commands are the lines of the file
SetReadFile ==
    /\ pc = "resolve"
    /\ startswith(args[1].command, <<"@">>)
    /\ args[1].command # <<"@", "-">>
    /\ Tail(args[1].command) # <<>>
    /\ stdout' = IF args[1].debug
                 THEN Append(stdout,
                             debug(<<"Reading commands from ">> \o Tail(args[1].command)))
                 ELSE stdout
    /\ \E txt \in Texts :
          /\ reads' = Append(reads, [src |-> "file", path |-> Tail(args[1].command),
                                     text |-> Some(txt)])
          /\ commands' = split(txt, <<NL>>)
    /\ pc' = "connect"
    /\ UNCHANGED <<entry, args, i, session, timeout, calls, out, clients, stderr, exc,
                   exitcode, env>>

\* open() fails: no such file, no permission, or an empty name
SetOpenFail ==
    /\ pc = "resolve"
    /\ startswith(args[1].command, <<"@">>)
    /\ args[1].command # <<"@", "-">>
    /\ stdout' = IF args[1].debug
                 THEN Append(stdout,
                             debug(<<"Reading commands from ">> \o Tail(args[1].command)))
                 ELSE stdout
    /\ reads' = Append(reads, [src |-> "file", path |-> Tail(args[1].command),
                               text |-> None])
    /\ Raise(Exception(<<"[Errno 2] No such file or directory">>))
    /\ UNCHANGED <<entry, args, commands, i, timeout, calls, out, clients, stderr,
                   exitcode, env>>

\* variant of SetLiteral: splits at the newline character
SetLiteral_newline ==
    /\ pc = "resolve"
    /\ ~startswith(args[1].command, <<"@">>)
    /\ commands' = split(args[1].command, <<NL>>)
    /\ pc' = "connect"
    /\ UNCHANGED <<entry, args, i, session, timeout, calls, reads, out, clients,
                   stdout, stderr, exc, exitcode, env>>

\* any other argument: the commands are separated by backslash n
SetLiteral ==
    /\ pc = "resolve"
    /\ ~startswith(args[1].command, <<"@">>)
    /\ commands' = split(args[1].command, Escape)
    /\ pc' = "connect"
    /\ UNCHANGED <<entry, args, i, session, timeout, calls, reads, out, clients,
                   stdout, stderr, exc, exitcode, env>>

----------------------------------------------------------------------------
(* main_set: the connection and the loop over the commands *)

SetConnect ==
    /\ pc = "connect"
    /\ entry = "set"
    /\ calls' = Append(calls, Call("ds9samp", args[1].client, None))
    /\ session' = "open"
    /\ stdout' = IF args[1].debug
                 THEN Append(stdout, debug(<<"Connected: ", "ds9">>))
                 ELSE stdout
    /\ timeout' = Some(args[1].timeout)
    /\ i' = 1
    /\ pc' = "loop"
    /\ UNCHANGED <<entry, args, commands, reads, out, clients, stderr, exc, exitcode,
                   env>>

SetConnectFail ==
    /\ pc = "connect"
    /\ entry = "set"
    /\ calls' = Append(calls, Call("ds9samp", args[1].client, None))
    /\ Raise(Exception(<<"Unable to find a running SAMP Hub.">>))
    /\ UNCHANGED <<entry, args, commands, i, timeout, reads, out, clients, stdout,
                   stderr, exitcode, env>>

\* variant of SetSkip: without the blank test
SetSkip_send ==
    /\ pc = "loop"
    /\ i <= Len(commands)
    /\ strip(commands[i]) = <<>>
    /\ calls' = Append(calls, Call("set", commands[i], timeout))
    /\ i' = i + 1
    /\ UNCHANGED <<entry, pc, args, commands, session, timeout, reads, out, clients,
                   stdout, stderr, exc, exitcode, env>>

\* a blank command: continue
SetSkip ==
    /\ pc = "loop"
    /\ i <= Len(commands)
    /\ strip(commands[i]) = <<>>
    /\ i' = i + 1
    /\ UNCHANGED <<entry, pc, args, commands, session, timeout, calls, reads, out,
                   clients, stdout, stderr, exc, exitcode, env>>

\* variant of SetSend: sends command.strip()
SetSend_stripped ==
    /\ pc = "loop"
    /\ i <= Len(commands)
    /\ strip(commands[i]) # <<>>
    /\ stdout' = IF args[1].debug
                 THEN Append(stdout, debug(<<"Command: ">> \o commands[i]))
                 ELSE stdout
    /\ calls' = Append(calls, Call("set", strip(commands[i]), timeout))
    /\ i' = i + 1
    /\ UNCHANGED <<entry, pc, args, commands, session, timeout, reads, out, clients,
                   stderr, exc, exitcode, env>>

\* ds9.set(command) returns
SetSend ==
    /\ pc = "loop"
    /\ i <= Len(commands)
    /\ strip(commands[i]) # <<>>
    /\ stdout' = IF args[1].debug
                 THEN Append(stdout, debug(<<"Command: ">> \o commands[i]))
                 ELSE stdout
    /\ calls' = Append(calls, Call("set", commands[i], timeout))
    /\ i' = i + 1
    /\ UNCHANGED <<entry, pc, args, commands, session, timeout, reads, out, clients,
                   stderr, exc, exitcode, env>>

\* ds9.set(command) raises: nothing in the loop catches it
SetSendFail ==
    /\ pc = "loop"
    /\ i <= Len(commands)
    /\ strip(commands[i]) # <<>>
    /\ stdout' = IF args[1].debug
                 THEN Append(stdout, debug(<<"Command: ">> \o commands[i]))
                 ELSE stdout
    /\ calls' = Append(calls, Call("set", commands[i], timeout))
    /\ Raise(Exception(<<"DS9 reported an error">>))
    /\ UNCHANGED <<entry, args, commands, i, timeout, reads, out, clients, stderr,
                   exitcode, env>>

\* the loop ends, and with it the with block
SetEnd ==
    /\ pc = "loop"
    /\ i > Len(commands)
    /\ session' = release(session)
    /\ pc' = "return"
    /\ UNCHANGED <<entry, args, commands, i, timeout, calls, reads, out, clients,
                   stdout, stderr, exc, exitcode, env>>

----------------------------------------------------------------------------
(* main_list *)

\* variant of ListText: without the branch for one client
ListText_plural(cl) ==
    <<"There are ", ToString(Len(cl)), " DS9 clients: ">>
        \o join(<<" ">>, [k \in 1..Len(cl) |-> <<cl[k]>>])

\* the line main_list prints for one client or more
ListText(cl) ==
    IF Len(cl) = 1 THEN <<"There is one DS9 client: ", cl[1]>>
    ELSE <<"There are ", ToString(Len(cl)), " DS9 clients: ">>
             \o join(<<" ">>, [k \in 1..Len(cl) |-> <<cl[k]>>])

ListNone ==
    /\ pc = "list"
    /\ calls' = Append(calls, Call("list_ds9", <<>>, None))
    /\ clients' = Some(<<>>)
    /\ Raise(Exception(<<"There are no DS9 clients connected to the SAMP hub.">>))
    /\ UNCHANGED <<entry, args, commands, i, timeout, reads, out, stdout, stderr,
                   exitcode, env>>

ListPrint ==
    /\ pc = "list"
    /\ calls' = Append(calls, Call("list_ds9", <<>>, None))
    /\ \E cl \in ClientLists :
          /\ Len(cl) > 0
          /\ clients' = Some(cl)
          /\ stdout' = Append(stdout, print(ListText(cl)))
    /\ pc' = "return"
    /\ UNCHANGED <<entry, args, commands, i, session, timeout, reads, out, stderr,
                   exc, exitcode, env>>

\* list_ds9 raises: there is no hub
ListFail ==
    /\ pc = "list"
    /\ calls' = Append(calls, Call("list_ds9", <<>>, None))
    /\ Raise(Exception(<<"Unable to find a running SAMP Hub.">>))
    /\ UNCHANGED <<entry, args, commands, i, timeout, reads, out, clients, stdout,
                   stderr, exitcode, env>>

----------------------------------------------------------------------------
(* handle_error: the function every entry point is wrapped in *)

\* control c, at any point of the entry point
Interrupt ==
    /\ pc \notin {"raised", "done"}
    /\ Raise(KeyboardInterrupt)
    /\ UNCHANGED <<entry, args, commands, i, timeout, calls, reads, out, clients,
                   stdout, stderr, exitcode, env>>

\* the entry point returns: the process ends with 0
Return ==
    /\ pc = "return"
    /\ exitcode' = Some(0)
    /\ pc' = "done"
    /\ UNCHANGED <<entry, args, commands, i, session, timeout, calls, reads, out,
                   clients, stdout, stderr, exc, env>>

\* variant of HandleException: without sys.exit(1)
HandleException_noexit ==
    /\ pc = "raised"
    /\ exc[1].kind = "Exception"
    /\ \E e \in Environments :
          /\ env' = Some(e)
          /\ stderr' = Append(stderr, add_color(<<"# ds9samp_", entry, ":">>, e)
                                          \o <<" ERROR ">> \o exc[1].msg \o <<NL>>)
    /\ exitcode' = Some(0)
    /\ pc' = "done"
    /\ UNCHANGED <<entry, args, commands, i, session, timeout, calls, reads, out,
                   clients, stdout, exc>>

\* except Exception as exc
HandleException ==
    /\ pc = "raised"
    /\ exc[1].kind = "Exception"
    /\ \E e \in Environments :
          /\ env' = Some(e)
          /\ stderr' = Append(stderr, add_color(<<"# ds9samp_", entry, ":">>, e)
                                          \o <<" ERROR ">> \o exc[1].msg \o <<NL>>)
    /\ exitcode' = Some(1)
    /\ pc' = "done"
    /\ UNCHANGED <<entry, args, commands, i, session, timeout, calls, reads, out,
                   clients, stdout, exc>>

\* except KeyboardInterrupt: the prefix is not an f-string
HandleInterrupt ==
    /\ pc = "raised"
    /\ exc[1].kind = "KeyboardInterrupt"
    /\ \E e \in Environments :
          /\ env' = Some(e)
          /\ stderr' = Append(stderr, add_color(<<"# ds9samp_", "{name}", ":">>, e)
                                          \o <<" Keyboard interrupt (control c)", NL>>)
    /\ exitcode' = Some(1)
    /\ pc' = "done"
    /\ UNCHANGED <<entry, args, commands, i, session, timeout, calls, reads, out,
                   clients, stdout, exc>>

----------------------------------------------------------------------------
Next ==
    \/ ParseArgs \/ ParseList \/ ParseVersion \/ ParseUsageError
    \/ GetConnect \/ GetConnectFail \/ GetReply \/ GetFail \/ GetPrint
    \/ SetReadStdin \/ SetReadFile \/ SetOpenFail \/ SetLiteral
    \/ SetConnect \/ SetConnectFail \/ SetSkip \/ SetSend \/ SetSendFail \/ SetEnd
    \/ ListNone \/ ListPrint \/ ListFail
    \/ Interrupt \/ Return \/ HandleException \/ HandleInterrupt

Spec == Init /\ [][Next]_vars

----------------------------------------------------------------------------
(* What the claims speak of *)

IsBlank(c) == \A k \in 1..Len(c) : c[k] \in Whitespace
NonBlank(cs) == SelectSeq(cs, LAMBDA c : ~IsBlank(c))
HasEscape(c) == \E k \in 1..(Len(c) - 1) : c[k] = BSLASH /\ c[k + 1] = "n"
HasNewline(c) == \E k \in 1..Len(c) : c[k] = NL

SetCalls == SelectSeq(calls, LAMBDA c : c.op = "set")
GetCalls == SelectSeq(calls, LAMBDA c : c.op = "get")
SetArgs == [k \in 1..Len(SetCalls) |-> SetCalls[k].arg]
Printed == SelectSeq(stdout, LAMBDA l : l.by = "print")
CommandTraces ==
    SelectSeq(stdout, LAMBDA l : l.by = "debug" /\ startswith(l.text, <<"# ", "Command: ">>))

Failed == exc # None /\ exc[1].kind = "Exception"
Interrupted == exc # None /\ exc[1].kind = "KeyboardInterrupt"
SetFailed == Failed /\ calls # <<>> /\ calls[Len(calls)].op = "set"

\* main_set has its list of commands
Resolved == entry = "set" /\ (pc \in {"connect", "loop", "return"} \/ calls # <<>>)
IsLiteral == entry = "set" /\ args # None /\ ~startswith(args[1].command, <<"@">>)

\* the message without the colour codes around its prefix
Plain(m) == SelectSeq(m, LAMBDA x : x \notin {BOLD_RED, RESET})

----------------------------------------------------------------------------
(* C1: in ds9samp_set a command whose send fails does not stop the rest:   *)
(* when the run is over, an error was reported and every non-blank command *)
(* after the failing one was forwarded to Session.set too.                 *)
C1_FailureDoesNotStopBatch ==
    (entry = "set" /\ pc = "done" /\ SetFailed) =>
        /\ Len(stderr) = 1
        /\ SetArgs = NonBlank(commands)

(* C2: every session main_get or main_set acquired is released when the    *)
(* entry point is left, by return, by a failure or by an interrupt, and    *)
(* every get and set is sent on an open session.                           *)
C2_SessionReleased ==
    /\ pc \in {"raised", "return", "done"} => session # "open"
    /\ \A k \in 1..Len(calls) : calls[k].op \in {"get", "set"} => calls[k].open
    /\ session # "none" => \E k \in 1..Len(calls) : calls[k].op = "ds9samp"

C2_InterruptedWhileOpen ==
    /\ entry = "set"
    /\ pc = "done"
    /\ Interrupted
    /\ session = "closed"
    /\ i >= 1 /\ i <= Len(commands)
    /\ SetCalls # <<>>

(* C3: an entry point ends with exit code 1 and exactly one message on the *)
(* diagnostic stream after a failure or an interrupt, and with exit code 0 *)
(* and nothing on the diagnostic stream otherwise; nothing is written to   *)
(* the diagnostic stream and no exit code is set before the handler runs.  *)
C3_ExitCodes ==
    /\ pc # "done" => stderr = <<>> /\ exitcode = None
    /\ (pc = "done" /\ (Failed \/ Interrupted)) => exitcode = Some(1) /\ Len(stderr) = 1
    /\ (pc = "done" /\ exc = None) => exitcode = Some(0) /\ stderr = <<>>
    /\ (pc = "raised") => (Failed \/ Interrupted)

C3_ZeroClientsExit ==
    /\ entry = "list"
    /\ pc = "done"
    /\ clients = Some(<<>>)
    /\ Failed
    /\ exitcode = Some(1)

(* C4: as long as no send fails, the commands main_set forwarded are the   *)
(* non-blank elements of the part of the batch it went through, each once  *)
(* and in order; a blank element leaves no send and no trace line.         *)
C4_BatchOrder ==
    (entry = "set" /\ i >= 1 /\ ~SetFailed) =>
        /\ SetArgs = NonBlank(SubSeq(commands, 1, i - 1))
        /\ \A k \in 1..Len(SetCalls) : SetCalls[k].timeout = Some(args[1].timeout)
        /\ args[1].debug =>
              CommandTraces = [k \in 1..Len(SetArgs) |->
                                  debug(<<"Command: ">> \o SetArgs[k])]
        /\ ~args[1].debug => stdout = <<>>
        /\ (pc = "return" \/ (pc = "done" /\ exc = None)) => i = Len(commands) + 1

C4_BlankSkipped ==
    /\ entry = "set"
    /\ pc = "done"
    /\ exc = None
    /\ \E k \in 1..Len(commands) : IsBlank(commands[k])
    /\ SetArgs # <<>>

(* C5, as claimed: a literal command without the backslash-n escape gives  *)
(* a batch of one element, and what is forwarded to Session.set is the     *)
(* argument with leading and trailing whitespace trimmed.                  *)
C5_LiteralTrimmed ==
    (IsLiteral /\ Resolved /\ ~HasEscape(args[1].command)) =>
        /\ Len(commands) = 1
        /\ \A k \in 1..Len(SetArgs) : SetArgs[k] = strip(args[1].command)

(* C5, amended: a literal command without the backslash-n escape gives a   *)
(* batch of one element, the argument as it is; if it is not blank it is   *)
(* forwarded to Session.set unchanged, whitespace included, and if it is   *)
(* blank nothing is forwarded.                                             *)
C5_LiteralVerbatim ==
    (IsLiteral /\ Resolved /\ ~HasEscape(args[1].command)) =>
        /\ commands = <<args[1].command>>
        /\ \A k \in 1..Len(SetArgs) : SetArgs[k] = args[1].command
        /\ Len(SetArgs) <= 1
        /\ IsBlank(args[1].command) => SetArgs = <<>>
        /\ (pc = "return" /\ ~IsBlank(args[1].command)) => Len(SetArgs) = 1

C5_UntrimmedForwarded ==
    /\ IsLiteral
    /\ pc = "done"
    /\ exc = None
    /\ ~HasEscape(args[1].command)
    /\ args[1].command # <<>>
    /\ args[1].command[1] = " "
    /\ SetArgs = <<args[1].command>>

(* C6: "@-" takes the commands from standard input, any other argument     *)
(* that starts with "@" from the file named by the rest of the argument,   *)
(* and every other argument is a literal.  Standard input and a file are   *)
(* cut at the newline characters and nowhere else, a literal at the        *)
(* backslash-n escapes and nowhere else; when the file cannot be opened    *)
(* the run fails and no command is sent.                                   *)
C6_SourceResolution ==
    (entry = "set" /\ args # None) =>
        LET cmd == args[1].command
            atStdin == cmd = <<"@", "-">>
            atFile == cmd # <<>> /\ cmd[1] = "@" /\ ~atStdin
            opened == reads # <<>> /\ reads[1].text # None
        IN  /\ Len(reads) <= 1
            /\ reads # <<>> =>
                  \/ atStdin /\ reads[1].src = "stdin"
                  \/ atFile /\ reads[1].src = "file"
                            /\ reads[1].path = SubSeq(cmd, 2, Len(cmd))
            /\ (Resolved /\ (atStdin \/ atFile)) =>
                  /\ opened
                  /\ join(<<NL>>, commands) = reads[1].text[1]
                  /\ \A k \in 1..Len(commands) : ~HasNewline(commands[k])
            /\ (Resolved /\ ~atStdin /\ ~atFile) =>
                  /\ reads = <<>>
                  /\ join(Escape, commands) = cmd
                  /\ \A k \in 1..Len(commands) : ~HasEscape(commands[k])
            /\ (reads # <<>> /\ ~opened) =>
                  /\ atFile
                  /\ calls = <<>>
                  /\ Failed
                  /\ pc \in {"raised", "done"}
                  /\ pc = "done" => exitcode = Some(1)

C6_EscapeInFileKept ==
    /\ entry = "set"
    /\ pc = "done"
    /\ exc = None
    /\ reads # <<>>
    /\ reads[1].src = "file"
    /\ reads[1].text # None
    /\ HasEscape(reads[1].text[1])
    /\ HasNewline(reads[1].text[1])
    /\ Len(commands) = 2
    /\ Len(SetArgs) = 1

C8_PrefixNamesEntry ==
    (pc = "done" /\ (Failed \/ Interrupted)) =>
        /\ Len(stderr) = 1
        /\ startswith(Plain(stderr[1]), <<"# ds9samp_", entry, ":">>)
        /\ Failed => Plain(stderr[1])[4] = " ERROR "
        /\ Interrupted => Plain(stderr[1])[4] = " Keyboard interrupt (control c)"

(* C9: ds9samp_list prints nothing and fails with exit code 1 and a        *)
(* message when the hub reports no client, prints "There is one DS9        *)
(* client: c" for one client c, and prints "There are n DS9 clients: "     *)
(* and the names in the hub's order with one space between them for n > 1. *)
C9_ListSummary ==
    (entry = "list" /\ clients # None) =>
        LET cl == clients[1]
            n == Len(cl)
        IN  /\ n = 0 =>
                  /\ stdout = <<>>
                  /\ Failed
                  /\ pc \in {"raised", "done"}
                  /\ pc = "done" =>
                        /\ exitcode = Some(1)
                        /\ Len(stderr) = 1
                        /\ \E k \in 1..Len(stderr[1]) : stderr[1][k] =
                              "There are no DS9 clients connected to the SAMP hub."
            /\ n = 1 => stdout = <<print(<<"There is one DS9 client: ", cl[1]>>)>>
            /\ n > 1 =>
                  /\ Len(stdout) = 1
                  /\ stdout[1].by = "print"
                  /\ Len(stdout[1].text) = 3 + 2 * n - 1
                  /\ SubSeq(stdout[1].text, 1, 3) =
                         <<"There are ", ToString(n), " DS9 clients: ">>
                  /\ \A k \in 1..n : stdout[1].text[3 + 2 * k - 1] = cl[k]
                  /\ \A k \in 1..(n - 1) : stdout[1].text[3 + 2 * k] = " "
            /\ (n > 0 /\ pc = "done" /\ exc = None) => exitcode = Some(0)

C9_TwoClients ==
    /\ entry = "list"
    /\ pc = "done"
    /\ clients = Some(<<"c1", "c56">>)
    /\ stdout = <<print(<<"There are ", "2", " DS9 clients: ", "c1", " ", "c56">>)>>

(* C10: add_color wraps the text in the bold red escape codes exactly when *)
(* the diagnostic stream is a terminal and NO_COLOR is not set; with       *)
(* NO_COLOR set, to the empty string too, or without a terminal, the text  *)
(* is unchanged.                                                           *)
C10_ColorPolicy ==
    env # None =>
        /\ Len(stderr) = 1
        /\ LET m == stderr[1]
               e == env[1]
           IN  IF e.isatty /\ e.NO_COLOR = None
               THEN /\ m[1] = BOLD_RED
                    /\ m[2] = "# ds9samp_"
                    /\ m[4] = ":"
                    /\ m[5] = RESET
                    /\ \A k \in 6..Len(m) : m[k] \notin {BOLD_RED, RESET}
               ELSE /\ m[1] = "# ds9samp_"
                    /\ m[3] = ":"
                    /\ \A k \in 1..Len(m) : m[k] \notin {BOLD_RED, RESET}

C10_EmptyNoColorOnTerminal ==
    /\ env = Some([isatty |-> TRUE, NO_COLOR |-> Some("")])
    /\ Len(stderr) = 1
    /\ stderr[1][1] = "# ds9samp_"

====
